---- MODULE Spec2Model ----
(***************************************************************************)
(* TodoListClient: the item-ordering subsystem of the list detail page     *)
(* (TodoListDetailPage), the React Query hooks behind it (useTodoItems,    *)
(* useTodoLists) and the query cache they invalidate.                      *)
(*                                                                         *)
(* JavaScript arrays are 0-based; sequences here are 1-based.  Indices     *)
(* that cross a handler's interface (itemIndex, oldIndex, newIndex) keep   *)
(* their 0-based JavaScript value and are shifted where a sequence is      *)
(* read.                                                                   *)
(***************************************************************************)
EXTENDS Integers, Sequences, FiniteSets, TLC

(***************************************************************************)
(* Bounds of the model.                                                    *)
(***************************************************************************)
\* largest order value an item starts with
MaxOrder == 3
\* largest number of reorder mutations pending at once
MaxInFlight == 2
\* largest number of items the viewed list grows to
MaxItems == 3
\* largest number of unused orders below the last item of a list at the start
MaxGaps == 0
\* most mutations of the other hooks pending at once
MaxPending == 2
\* most subscribers waiting for the fetch of one query
MaxReaders == 3

\* the limits of the forms: title.length > 200, description.length > 1000
MaxTitleLength == 200
MaxDescriptionLength == 1000

\* the lists of the signed-in user and the item ids a list may hold
ListIds == {"L1", "L2"}
ItemIds == {"A", "B", "C", "D"}
\* creation order of the ids (new items take the first unused id)
IdRank == [i \in ItemIds |-> CASE i = "A" -> 1 [] i = "B" -> 2 [] i = "C" -> 3 [] i = "D" -> 4]

VARIABLES
    id,            \* useParams().id of the mounted detail page
    pathname,      \* window.location.pathname
    token,         \* localStorage[TOKEN_STORAGE_KEY] present?
    serverItems,   \* backend: the items of each list, in creation order
    cache,         \* QueryClient's query cache: key -> entry
    muts,          \* pending reorder mutations of useReorderItems
    reorderStatus, \* status the mutation observer reports (isPending, error)
    createMuts,    \* pending createItem mutations of useCreateItem
    pending,       \* pending mutations of the other hooks (lists, items, auth)
    session,       \* AuthProvider: user, isLoading; the stored user; the route element
    button,        \* a Button (components/ui): its props, and (history) clicks and calls
    lastEvent      \* history: the event that produced the current state

vars ==
    <<id, pathname, token, serverItems, cache, muts, reorderStatus, createMuts, pending,
      session, button, lastEvent>>
\* everything but the history variable
progvars ==
    <<id, pathname, token, serverItems, cache, muts, reorderStatus, createMuts, pending,
      session, button>>

(***************************************************************************)
(* Data: TodoItem and TodoList (types/api.ts).  Only the fields the        *)
(* ordering and caching logic reads are kept.                              *)
(***************************************************************************)
\* a title is the sequence of its characters
DefaultTitle == <<"t">>

TodoItem(i, o) == [id |-> i, title |-> DefaultTitle, order |-> o, isCompleted |-> FALSE]

\* String.prototype.trim: the whitespace at both ends is removed
RECURSIVE TrimStart(_)
TrimStart(s) == IF s # <<>> /\ Head(s) = " " THEN TrimStart(Tail(s)) ELSE s

RECURSIVE TrimEnd(_)
TrimEnd(s) == IF s # <<>> /\ s[Len(s)] = " " THEN TrimEnd(SubSeq(s, 1, Len(s) - 1)) ELSE s

Trim(s) == TrimEnd(TrimStart(s))

\* TodoList.items is `TodoItem[] | null`: hasItems = FALSE stands for null
TodoList(l, hasItems, its) == [id |-> l, hasItems |-> hasItems, items |-> its]

Ids(s) == {s[k].id : k \in 1..Len(s)}

\* sequences over a set of ids, in creation order, one per choice of orders
RECURSIVE SeqInIdOrder(_, _)
SeqInIdOrder(S, ord) ==
    IF S = {} THEN <<>>
    ELSE LET i == CHOOSE x \in S : \A y \in S : IdRank[x] <= IdRank[y]
         IN <<TodoItem(i, ord[i])>> \o SeqInIdOrder(S \ {i}, ord)

ItemLists == {SeqInIdOrder(S, ord) : S \in SUBSET ItemIds, ord \in [ItemIds -> 0..MaxOrder]}

(***************************************************************************)
(* Order Resolution: the page's computations (TodoListDetailPage).         *)
(***************************************************************************)
\* Array.prototype.sort with (a, b) => a.order - b.order is stable:
\* x goes after every element whose order is <= x.order
RECURSIVE InsertByOrder(_, _)
InsertByOrder(x, s) ==
    IF s = <<>> THEN <<x>>
    ELSE IF s[Len(s)].order <= x.order THEN Append(s, x)
    ELSE Append(InsertByOrder(x, SubSeq(s, 1, Len(s) - 1)), s[Len(s)])

RECURSIVE SortByOrder(_)
SortByOrder(s) ==
    IF s = <<>> THEN <<>>
    ELSE InsertByOrder(s[Len(s)], SortByOrder(SubSeq(s, 1, Len(s) - 1)))

\* findIndex: 0-based index of the item with this id, -1 when there is none
findIndex(s, i) ==
    IF \E k \in 1..Len(s) : s[k].id = i
    THEN (CHOOSE k \in 1..Len(s) : s[k].id = i /\ \A j \in 1..(k - 1) : s[j].id # i) - 1
    ELSE -1

\* splice(index, 1): the array without the element at 0-based index
SpliceOut(s, index) == SubSeq(s, 1, index) \o SubSeq(s, index + 2, Len(s))

\* splice(index, 0, x): x inserted before 0-based index
SpliceIn(s, index, x) == SubSeq(s, 1, index) \o <<x>> \o SubSeq(s, index + 1, Len(s))

\* what a handler hands to reorderItems.mutate, or nothing when it returns early
NoRequest == [send |-> FALSE, itemOrders |-> [i \in {} |-> 0]]
Request(orders) == [send |-> TRUE, itemOrders |-> orders]

\* const displayItems = items || list.items || []
displayItems(items, hasItems, list) ==
    IF hasItems THEN items
    ELSE IF list.hasItems THEN list.items
    ELSE <<>>

\* (variant of sortedItems without the sort)
sortedItemsAsCached(display) == display

\* const sortedItems = [...displayItems].sort((a, b) => a.order - b.order)
sortedItems(display) == SortByOrder(display)

\* forEach((item, idx) => newOrders[item.id] = f[idx]): a later write to the
\* same key overwrites an earlier one
OrdersByIndex(s, f) ==
    [i \in Ids(s) |->
        LET k == CHOOSE k \in 1..Len(s) :
                     s[k].id = i /\ \A j \in (k + 1)..Len(s) : s[j].id # i
        IN f[k - 1]]

\* the indices of an array
Indices(s) == 0..(Len(s) - 1)

\* (variant of handleMoveUp that wraps the first item around to the end)
MoveUpRequestWrap(theId, sorted, itemIndex) ==
    IF theId = "" \/ Len(sorted) < 2 THEN NoRequest
    ELSE LET above == IF itemIndex = 0 THEN Len(sorted) - 1 ELSE itemIndex - 1
             itemToMove == sorted[itemIndex + 1]
             itemAbove == sorted[above + 1]
             f == [idx \in Indices(sorted) |->
                       IF idx = itemIndex THEN itemAbove.order
                       ELSE IF idx = above THEN itemToMove.order
                       ELSE sorted[idx + 1].order]
         IN Request(OrdersByIndex(sorted, f))

\* handleMoveUp(itemIndex): the early return, else the "swap orders" map
MoveUpRequest(theId, sorted, itemIndex) ==
    IF theId = "" \/ itemIndex = 0 \/ Len(sorted) < 2 THEN NoRequest
    ELSE LET itemToMove == sorted[itemIndex + 1]
             itemAbove == sorted[itemIndex]
             f == [idx \in Indices(sorted) |->
                       IF idx = itemIndex THEN itemAbove.order
                       ELSE IF idx = itemIndex - 1 THEN itemToMove.order
                       ELSE sorted[idx + 1].order]
         IN Request(OrdersByIndex(sorted, f))

\* (variant of handleMoveDown without the length check)
MoveDownRequestNoLength(theId, sorted, itemIndex) ==
    IF theId = "" \/ itemIndex = Len(sorted) - 1 THEN NoRequest
    ELSE LET f == [idx \in Indices(sorted) |->
                       IF idx = itemIndex THEN sorted[itemIndex + 2].order
                       ELSE IF idx = itemIndex + 1 THEN sorted[itemIndex + 1].order
                       ELSE sorted[idx + 1].order]
         IN Request(OrdersByIndex(sorted, f))

\* handleMoveDown(itemIndex)
MoveDownRequest(theId, sorted, itemIndex) ==
    IF theId = "" \/ itemIndex = Len(sorted) - 1 \/ Len(sorted) < 2 THEN NoRequest
    ELSE LET itemToMove == sorted[itemIndex + 1]
             itemBelow == sorted[itemIndex + 2]
             f == [idx \in Indices(sorted) |->
                       IF idx = itemIndex THEN itemBelow.order
                       ELSE IF idx = itemIndex + 1 THEN itemToMove.order
                       ELSE sorted[idx + 1].order]
         IN Request(OrdersByIndex(sorted, f))

\* a DragEndEvent: active.id, and over.id or NoOver when over is null
NoOver == "null"
DragEvents == [active : ItemIds, over : ItemIds \cup {NoOver}]

\* (variant of the splice pair that exchanges the two positions)
reorderedItemsSwap(sorted, oldIndex, newIndex) ==
    [k \in 1..Len(sorted) |->
        IF k = oldIndex + 1 THEN sorted[newIndex + 1]
        ELSE IF k = newIndex + 1 THEN sorted[oldIndex + 1]
        ELSE sorted[k]]

\* the array after splice(oldIndex, 1) and splice(newIndex, 0, movedItem)
reorderedItems(sorted, oldIndex, newIndex) ==
    SpliceIn(SpliceOut(sorted, oldIndex), newIndex, sorted[oldIndex + 1])

\* (variant of handleDragEnd that sends only the items whose position changed)
DragEndRequestPartial(theId, sorted, event) ==
    IF theId = "" \/ event.over = NoOver \/ event.active = event.over THEN NoRequest
    ELSE LET oldIndex == findIndex(sorted, event.active)
             newIndex == findIndex(sorted, event.over)
         IN IF oldIndex = -1 \/ newIndex = -1 THEN NoRequest
            ELSE LET moved == reorderedItems(sorted, oldIndex, newIndex)
                     all == OrdersByIndex(moved, [idx \in Indices(moved) |-> idx])
                 IN Request([i \in {x \in DOMAIN all : findIndex(sorted, x) # all[x]} |-> all[i]])

\* handleDragEnd(event): the early returns, else order = new position
DragEndRequest(theId, sorted, event) ==
    IF theId = "" \/ event.over = NoOver \/ event.active = event.over THEN NoRequest
    ELSE LET oldIndex == findIndex(sorted, event.active)
             newIndex == findIndex(sorted, event.over)
         IN IF oldIndex = -1 \/ newIndex = -1 THEN NoRequest
            ELSE LET f == [idx \in Indices(sorted) |-> idx]
                 IN Request(OrdersByIndex(reorderedItems(sorted, oldIndex, newIndex), f))

(***************************************************************************)
(* The query cache (QueryClient) and the query keys of the hooks.          *)
(***************************************************************************)
\* todoListKeys.all, todoListKeys.detail(id)
todoListKeys_all == <<"todoLists">>
todoListKeys_detail(l) == <<"todoLists", l>>
\* todoItemKeys.list(listId), todoItemKeys.detail(listId, itemId)
todoItemKeys_list(l) == <<"todoItems", "list", l>>
todoItemKeys_detail(l, i) == <<"todoItems", "detail", l, i>>

\* a query: its data (if any), isInvalidated, fetchStatus = 'fetching', error;
\* (history) the subscribers waiting for the running fetch and the requests
\* their subscriptions have sent
Query(data, hasData, stale, fetching, error) ==
    [data |-> data, hasData |-> hasData, stale |-> stale, fetching |-> fetching, error |-> error,
     waiters |-> 0, requests |-> 0]

EmptyCache == [k \in {} |-> 0]
NoList == TodoList("", FALSE, <<>>)

Has(c, k) == k \in DOMAIN c
Put(c, k, q) == [x \in DOMAIN c \cup {k} |-> IF x = k THEN q ELSE c[x]]

\* partial matching of query keys: queryKey is a prefix of the query's key
MatchesKey(queryKey, k) ==
    Len(queryKey) <= Len(k) /\ SubSeq(k, 1, Len(queryKey)) = queryKey

\* the queries with a mounted, enabled observer: on the detail page
\* useTodoList(id), and useTodoItems(id) once `list` is there; on the lists
\* page useTodoLists()
ActiveKeys(c, path, theId) ==
    IF path = "/lists" THEN {todoListKeys_all}
    ELSE IF path # "/lists/:id" THEN {}
    ELSE {todoListKeys_detail(theId)} \cup
         (IF Has(c, todoListKeys_detail(theId)) /\ c[todoListKeys_detail(theId)].hasData
          THEN {todoItemKeys_list(theId)} ELSE {})

\* queryClient.invalidateQueries({ queryKey }): every matching query is
\* marked invalidated; those in use are refetched (a running fetch restarts)
invalidateQueries(c, queryKey, active) ==
    [k \in DOMAIN c |->
        IF MatchesKey(queryKey, k)
        THEN [c[k] EXCEPT !.stale = TRUE, !.fetching = (k \in active) \/ c[k].fetching]
        ELSE c[k]]

\* queryClient.setQueryData(key, data)
setQueryData(c, k, data) == Put(c, k, Query(data, TRUE, FALSE, FALSE, FALSE))

(***************************************************************************)
(* What the detail page derives from the cache on a render.                *)
(***************************************************************************)
ListQ == cache[todoListKeys_detail(id)]
ItemsQ == cache[todoItemKeys_list(id)]
HasList == Has(cache, todoListKeys_detail(id)) /\ ListQ.hasData
HasItemsData == Has(cache, todoItemKeys_list(id)) /\ ItemsQ.hasData

\* isLoading of a query: no data yet and a fetch running (or about to start)
isLoadingList ==
    \/ ~Has(cache, todoListKeys_detail(id))
    \/ ~ListQ.hasData /\ ListQ.fetching
isLoadingItems ==
    /\ HasList
    /\ \/ ~Has(cache, todoItemKeys_list(id))
       \/ ~ItemsQ.hasData /\ ItemsQ.fetching

\* the page is past its loading / error / not-found returns, so the
\* handlers of this render exist
itemsError == Has(cache, todoItemKeys_list(id)) /\ ItemsQ.error

PageRendered ==
    /\ pathname = "/lists/:id"
    /\ session.element = "TodoListDetailPage"
    /\ token
    /\ ~(isLoadingList \/ isLoadingItems)
    /\ HasList

DisplayNow ==
    displayItems(IF HasItemsData THEN ItemsQ.data ELSE <<>>, HasItemsData,
                 IF HasList THEN ListQ.data ELSE NoList)
SortedNow == sortedItems(DisplayNow)

\* the items whose TodoItem is mounted: the rows of the rendered items list
MountedItems ==
    IF PageRendered /\ ~isLoadingItems /\ ~itemsError
    THEN Ids(SortedNow)
    ELSE {}

\* useMutation's state lives in the component that called the hook: when a
\* TodoItem unmounts, the requests of its mutations go on and their
\* onSuccess still runs, but the TodoItem mounted for the item later has
\* mutations of its own, with isPending false.  p: the pending mutations
\* after a step; a mutation of an item whose TodoItem is not mounted after
\* the step is observed by no component from then on
StillObserved(p) ==
    LET mounted == MountedItems'
    IN [k \in 1..Len(p) |->
          IF p[k].itemId # "" /\ p[k].itemId \notin mounted
          THEN [p[k] EXCEPT !.observed = FALSE]
          ELSE p[k]]

\* the indices the page binds onMoveUp / onMoveDown to (sortedItems.map);
\* index 0 is also tried on an empty list
ItemIndices == 0..(IF Len(SortedNow) = 0 THEN 0 ELSE Len(SortedNow) - 1)

(***************************************************************************)
(* Reorder mutations (useReorderItems) started by the page's handlers.     *)
(***************************************************************************)
\* a pending mutation: its variables, failureCount, whether the page's
\* observer follows it (the latest mutate), and (history) the cache as it
\* was when mutate ran, kept while nothing else wrote to the cache
Mutation(l, orders, c) ==
    [listId |-> l, itemOrders |-> orders, failureCount |-> 0, observed |-> TRUE,
     clean |-> TRUE, snap |-> c]

\* reorderItems.mutate({ listId: id, data: requestData }, { onError })
reorderItems_mutate(req) ==
    /\ Len(muts) < MaxInFlight
    /\ muts' = Append([k \in 1..Len(muts) |-> [muts[k] EXCEPT !.observed = FALSE]],
                      Mutation(id, req.itemOrders, cache))
    /\ reorderStatus' = "pending"
    /\ UNCHANGED <<button, id, pathname, token, serverItems, cache, createMuts, pending, session>>

HandlerStep(req) ==
    IF req.send THEN reorderItems_mutate(req) ELSE UNCHANGED progvars

handleMoveUp(itemIndex) ==
    PageRendered /\ HandlerStep(MoveUpRequest(id, SortedNow, itemIndex))

handleMoveDown(itemIndex) ==
    PageRendered /\ HandlerStep(MoveDownRequest(id, SortedNow, itemIndex))

handleDragEnd(event) ==
    PageRendered /\ HandlerStep(DragEndRequest(id, SortedNow, event))

(***************************************************************************)
(* Button (components/ui): disabled is `true`, `false` or not given;       *)
(* loading defaults to false.  (history) the clicks made on it and the     *)
(* calls of its onClick.                                                   *)
(***************************************************************************)
DisabledProps == {"undefined", "false", "true"}

Button(disabled, loading) ==
    [disabled |-> disabled, loading |-> loading, clicks |-> 0, calls |-> 0]

\* a button nobody clicks
IdleButton == Button("undefined", FALSE)

(***************************************************************************)
(* The session: AuthProvider's state, the user stored in localStorage and  *)
(* the element the router shows.                                           *)
(***************************************************************************)
\* user: AuthProvider's user is not null; storedUser: localStorage's
\* todolist_user is absent ("none"), parses ("valid") or does not ("corrupt")
Session(user, isLoading, storedUser, element) ==
    [user |-> user, isLoading |-> isLoading, storedUser |-> storedUser, element |-> element]

\* a signed-in user looking at a page
SignedIn(element) == Session(TRUE, FALSE, "valid", element)

\* the elements behind ProtectedRoute
Pages == {"TodoListsPage", "TodoListDetailPage"}

(***************************************************************************)
(* History of events.                                                      *)
(***************************************************************************)
Ev(type) ==
    [type |-> type, index |-> -1, active |-> "", over |-> "", status |-> 0, listId |-> "",
     clean |-> FALSE]
NoEvent == Ev("none")

(***************************************************************************)
(* SpecHandlers: one call of one reorder handler on an arbitrary render.   *)
(* The list shown is drawn from ItemLists, held either by the items query  *)
(* or (items query failed) by list.items, or by neither.                   *)
(***************************************************************************)
InitHandlers ==
    /\ id = "L1"
    /\ pathname = "/lists/:id"
    /\ token = TRUE
    /\ serverItems = [l \in ListIds |-> <<>>]
    /\ \E its \in ItemLists, held \in {"items", "list.items", "neither"} :
          /\ held = "neither" => its = <<>>
          /\ cache =
               Put(Put(EmptyCache, todoListKeys_detail(id),
                       Query(TodoList(id, held = "list.items",
                                      IF held = "list.items" THEN its ELSE <<>>),
                             TRUE, FALSE, FALSE, FALSE)),
                   todoItemKeys_list(id),
                   IF held = "items" THEN Query(its, TRUE, FALSE, FALSE, FALSE)
                   ELSE Query(<<>>, FALSE, FALSE, FALSE, TRUE))
    /\ muts = <<>>
    /\ reorderStatus = "idle"
    /\ createMuts = <<>>
    /\ pending = <<>>
    /\ button = IdleButton
    /\ session = SignedIn("TodoListDetailPage")
    /\ lastEvent = NoEvent

CallMoveUp ==
    /\ lastEvent = NoEvent
    /\ \E itemIndex \in ItemIndices :
          /\ handleMoveUp(itemIndex)
          /\ lastEvent' = [Ev("handleMoveUp") EXCEPT !.index = itemIndex]

CallMoveDown ==
    /\ lastEvent = NoEvent
    /\ \E itemIndex \in ItemIndices :
          /\ handleMoveDown(itemIndex)
          /\ lastEvent' = [Ev("handleMoveDown") EXCEPT !.index = itemIndex]

CallDragEnd ==
    /\ lastEvent = NoEvent
    /\ \E event \in DragEvents :
          /\ handleDragEnd(event)
          /\ lastEvent' = [Ev("handleDragEnd") EXCEPT !.active = event.active, !.over = event.over]

NextHandlers == CallMoveUp \/ CallMoveDown \/ CallDragEnd

SpecHandlers == InitHandlers /\ [][NextHandlers]_vars

(***************************************************************************)
(* The backend, as the services see it (listItemService, listService).     *)
(***************************************************************************)
\* PATCH /api/lists/{id}/items/reorder: every listed item gets its order
ServerReorder(items, orders) ==
    [k \in 1..Len(items) |->
        IF items[k].id \in DOMAIN orders
        THEN [items[k] EXCEPT !.order = orders[items[k].id]]
        ELSE items[k]]

MaxOrderOf(items) ==
    CHOOSE m \in {items[k].order : k \in 1..Len(items)} :
        \A k \in 1..Len(items) : items[k].order <= m

FreshId(items) ==
    CHOOSE i \in ItemIds \ Ids(items) : \A j \in ItemIds \ Ids(items) : IdRank[i] <= IdRank[j]

\* (variant of the backend that puts the new item first)
NewItemFirst(items, title) ==
    [TodoItem(FreshId(items), 0) EXCEPT !.title = title]

\* POST /api/lists/{id}/items: the new item has the title of the request
\* and goes to the end (max order + 1)
NewItem(items, title) ==
    [TodoItem(FreshId(items), IF items = <<>> THEN 0 ELSE MaxOrderOf(items) + 1)
        EXCEPT !.title = title]

\* GET /api/lists/{id}/items: the items ordered by their order
GetItemsResponse(items) == SortByOrder(items)

\* GET /api/List: the lists of the user, in creation order
ListRank == [l \in ListIds |-> IF l = "L1" THEN 1 ELSE 2]

RECURSIVE GetListsResponse(_)
GetListsResponse(S) ==
    IF S = {} THEN <<>>
    ELSE LET l == CHOOSE x \in S : \A y \in S : ListRank[x] <= ListRank[y]
         IN <<l>> \o GetListsResponse(S \ {l})

\* GET /api/List/{id}: the list, with or without its items
GetListResponses(l, items) ==
    {TodoList(l, FALSE, <<>>), TodoList(l, TRUE, SortByOrder(items))}

\* HTTP failures: a response status, or 0 when there is no response
\* (network error, or the 10 s timeout of apiClient)
ErrorStatuses == {0, 400, 401, 404, 409, 422, 500}

(***************************************************************************)
(* The response interceptor of apiClient and the retry rule of the hooks.  *)
(***************************************************************************)
\* isAuthError(error)
isAuthError(status) == status = 401

\* (variant of retry that allows a second retry)
retryTwice(failureCount, status) ==
    IF status >= 400 /\ status < 500 THEN FALSE ELSE failureCount < 2

\* (variant of retry without the status test)
retryAnyStatus(failureCount, status) == failureCount < 1

\* retry: (failureCount, error) => 4xx ? false : failureCount < 1
retry(failureCount, status) ==
    IF status >= 400 /\ status < 500 THEN FALSE ELSE failureCount < 1

\* (variant of the interceptor that never leaves the page)
RedirectsToLoginNever(status) == FALSE

\* a 401 anywhere but on /login or /register: the token is removed and
\* window.location.href = '/login' reloads the application
RedirectsToLogin(status) ==
    isAuthError(status) /\ pathname # "/login" /\ pathname # "/register"

\* the interceptor removes the token on every 401
TokenAfter(status) == token /\ ~isAuthError(status)

\* (history) a 401 was received at this location
Unauthorized == [Ev("unauthorized") EXCEPT !.status = 401, !.active = pathname]

Reloaded ==
    /\ token' = FALSE
    /\ pathname' = "/login"
    /\ cache' = EmptyCache
    /\ muts' = <<>>
    /\ reorderStatus' = "idle"
    /\ createMuts' = <<>>
    /\ pending' = <<>>
    /\ session' = [session EXCEPT !.user = FALSE, !.isLoading = TRUE, !.element = "loading"]
    /\ UNCHANGED <<button, id, serverItems>>

\* history: another writer has changed the cache under the pending mutations
Touched(ms) == [k \in 1..Len(ms) |-> [ms[k] EXCEPT !.clean = FALSE]]

RemoveAt(s, k) == SubSeq(s, 1, k - 1) \o SubSeq(s, k + 1, Len(s))

(***************************************************************************)
(* Queries: useTodoList(id) and useTodoItems(id) of the mounted page.      *)
(***************************************************************************)
DefaultData(k) == IF k[1] = "todoItems" \/ k = todoListKeys_all THEN <<>> ELSE NoList

\* an observer mounts or refetches: the query is created if missing and a
\* fetch starts when it has no data or is invalidated
QueryFetch(k) ==
    /\ token
    /\ session.element \in Pages
    /\ k \in ActiveKeys(cache, pathname, id)
    /\ \/ ~Has(cache, k)
       \/ Has(cache, k) /\ ~cache[k].fetching /\ (cache[k].stale \/ ~cache[k].hasData)
    /\ cache' = Put(cache, k,
                    IF Has(cache, k) THEN [cache[k] EXCEPT !.fetching = TRUE]
                    ELSE Query(DefaultData(k), FALSE, FALSE, TRUE, FALSE))
    /\ muts' = Touched(muts)
    /\ lastEvent' = NoEvent
    /\ UNCHANGED <<button, id, pathname, token, serverItems, reorderStatus, createMuts,
                   pending, session>>

\* the fetch of a query resolves with the server's current data
FetchSuccess(k) ==
    /\ Has(cache, k) /\ cache[k].fetching
    /\ k # todoListKeys_all => id \in DOMAIN serverItems
    /\ \E data \in IF k = todoItemKeys_list(id)
                   THEN {GetItemsResponse(serverItems[id])}
                   ELSE IF k = todoListKeys_all
                   THEN {GetListsResponse(DOMAIN serverItems)}
                   ELSE GetListResponses(id, serverItems[id]) :
          cache' = Put(cache, k, Query(data, TRUE, FALSE, FALSE, FALSE))
    /\ muts' = Touched(muts)
    /\ lastEvent' = NoEvent
    /\ UNCHANGED <<button, id, pathname, token, serverItems, reorderStatus, createMuts,
                   session>>
    /\ pending' = StillObserved(pending)

\* the fetch fails for good (after the query's own retry)
FetchError(k, status) ==
    /\ Has(cache, k) /\ cache[k].fetching
    /\ lastEvent' = IF isAuthError(status) THEN Unauthorized ELSE NoEvent
    /\ IF RedirectsToLogin(status) THEN Reloaded
       ELSE /\ cache' = Put(cache, k, [cache[k] EXCEPT !.fetching = FALSE, !.error = TRUE,
                                                        !.waiters = 0, !.requests = 0])
            /\ muts' = Touched(muts)
            /\ token' = TokenAfter(status)
            /\ UNCHANGED <<button, id, pathname, serverItems, reorderStatus, createMuts,
                           session>>
            /\ pending' = StillObserved(pending)

(***************************************************************************)
(* useReorderItems: how a pending mutation settles.                        *)
(***************************************************************************)
\* (variant of onSuccess that also invalidates the parent list, as the
\* other item mutations do)
ReorderOnSuccessAlsoList(c, l, active) ==
    invalidateQueries(invalidateQueries(c, todoItemKeys_list(l), active),
                      todoListKeys_detail(l), active)

\* (variant of onSuccess that leaves the cache alone)
ReorderOnSuccessNothing(c, l, active) == c

\* onSuccess: invalidateQueries({ queryKey: todoItemKeys.list(listId) })
ReorderOnSuccess(c, l, active) == invalidateQueries(c, todoItemKeys_list(l), active)

\* (variant of the failure path that invalidates the list's items)
ReorderOnErrorInvalidate(c, l, active) == invalidateQueries(c, todoItemKeys_list(l), active)

\* the failure path: no onError in the hook, console.error on the page
ReorderOnError(c, l, active) == c

\* PATCH answered 204
ReorderSuccess(k) ==
    /\ k \in 1..Len(muts)
    /\ serverItems' = [serverItems EXCEPT
                          ![muts[k].listId] = ServerReorder(@, muts[k].itemOrders)]
    /\ cache' = ReorderOnSuccess(cache, muts[k].listId, ActiveKeys(cache, pathname, id))
    /\ muts' = Touched(RemoveAt(muts, k))
    /\ reorderStatus' = IF muts[k].observed THEN "success" ELSE reorderStatus
    /\ lastEvent' = [Ev("reorderSuccess") EXCEPT !.listId = muts[k].listId]
    /\ UNCHANGED <<button, id, pathname, token, createMuts, pending, session>>

\* PATCH failed with this status; without a response the server may still
\* have applied the request
ReorderFail(k, status) ==
    /\ k \in 1..Len(muts)
    /\ IF RedirectsToLogin(status)
       THEN /\ Reloaded
            /\ lastEvent' = [Ev("reorderError") EXCEPT
                                !.listId = muts[k].listId, !.index = k, !.status = status]
       ELSE /\ \E applied \in {FALSE, status = 0} :
                  serverItems' = IF applied
                                 THEN [serverItems EXCEPT
                                          ![muts[k].listId] = ServerReorder(@, muts[k].itemOrders)]
                                 ELSE serverItems
            /\ IF retry(muts[k].failureCount, status)
               THEN /\ muts' = [muts EXCEPT ![k].failureCount = @ + 1]
                    /\ lastEvent' = NoEvent
                    /\ UNCHANGED <<cache, reorderStatus>>
               ELSE /\ cache' = ReorderOnError(cache, muts[k].listId,
                                               ActiveKeys(cache, pathname, id))
                    /\ muts' = RemoveAt(muts, k)
                    /\ reorderStatus' = IF muts[k].observed THEN "error" ELSE reorderStatus
                    /\ lastEvent' = [Ev("reorderError") EXCEPT
                                        !.listId = muts[k].listId, !.index = k,
                                        !.status = status, !.clean = muts[k].clean]
            /\ token' = TokenAfter(status)
            /\ UNCHANGED <<button, id, pathname, createMuts, pending, session>>

(***************************************************************************)
(* useCreateItem, as CreateItemForm uses it.                               *)
(***************************************************************************)
\* (variant of onSuccess that leaves the list of all lists alone)
CreateItemOnSuccessNoLists(c, l, newItem, active) ==
    LET c1 == invalidateQueries(c, todoItemKeys_list(l), active)
        c2 == setQueryData(c1, todoItemKeys_detail(l, newItem.id), newItem)
    IN invalidateQueries(c2, todoListKeys_detail(l), active)

\* onSuccess: invalidate the list's items, cache the new item, invalidate
\* the parent list and the list of all lists
CreateItemOnSuccess(c, l, newItem, active) ==
    LET c1 == invalidateQueries(c, todoItemKeys_list(l), active)
        c2 == setQueryData(c1, todoItemKeys_detail(l, newItem.id), newItem)
        c3 == invalidateQueries(c2, todoListKeys_detail(l), active)
    IN invalidateQueries(c3, todoListKeys_all, active)

\* titles a user types that pass validate(): plain, padded with blanks,
\* with a blank inside
TypedTitles == {<<"a">>, <<" ", "a", " ">>, <<"a", " ", "b">>}

\* the variables of createItem.mutate: data.title is title.trim();
\* (history) the title as it was typed
CreateMutation(l, typed) ==
    [listId |-> l, title |-> Trim(typed), failureCount |-> 0, typed |-> typed]

\* handleSubmit of a valid form: createItem.mutate({ listId, data });
\* the form's inputs are disabled while the mutation is pending
CreateItemSubmit ==
    /\ PageRendered
    /\ createMuts = <<>>
    /\ Len(serverItems[id]) < MaxItems
    /\ \E typed \in TypedTitles : createMuts' = <<CreateMutation(ListQ.data.id, typed)>>
    /\ lastEvent' = NoEvent
    /\ UNCHANGED <<button, id, pathname, token, serverItems, cache, muts, reorderStatus,
                   pending, session>>

\* POST answered with the created item
CreateItemSuccess ==
    /\ createMuts # <<>>
    /\ Len(serverItems[createMuts[1].listId]) < Cardinality(ItemIds)
    /\ LET l == createMuts[1].listId
           newItem == NewItem(serverItems[l], createMuts[1].title)
       IN /\ serverItems' = [serverItems EXCEPT ![l] = Append(@, newItem)]
          /\ cache' = CreateItemOnSuccess(cache, l, newItem, ActiveKeys(cache, pathname, id))
          /\ lastEvent' = [Ev("createItemSuccess") EXCEPT !.listId = l]
    /\ createMuts' = <<>>
    /\ muts' = Touched(muts)
    /\ UNCHANGED <<button, id, pathname, token, reorderStatus, pending, session>>

\* POST failed with this status
CreateItemFail(status) ==
    /\ createMuts # <<>>
    /\ lastEvent' = IF retry(createMuts[1].failureCount, status) /\ ~RedirectsToLogin(status)
                    THEN NoEvent
                    ELSE [Ev("createItemError") EXCEPT
                            !.listId = createMuts[1].listId, !.status = status]
    /\ IF RedirectsToLogin(status) THEN Reloaded
       ELSE /\ createMuts' = IF retry(createMuts[1].failureCount, status)
                             THEN <<[createMuts[1] EXCEPT !.failureCount = @ + 1]>>
                             ELSE <<>>
            /\ token' = TokenAfter(status)
            /\ UNCHANGED <<button, id, pathname, serverItems, cache, muts, reorderStatus,
                           pending, session>>

(***************************************************************************)
(* Spec: the detail page of one list, its queries and its mutations.       *)
(***************************************************************************)
\* lists the backend may hold at the start: ids in creation order with
\* increasing orders (gaps are what deleted items leave)
ListsOf(idSets) ==
    {s \in ItemLists : /\ Ids(s) \in idSets
                       /\ \A k \in 1..(Len(s) - 1) : s[k].order < s[k + 1].order
                       /\ s # <<>> => s[Len(s)].order <= Len(s) - 1 + MaxGaps}

\* the cache of a session that came through the lists page and has opened
\* the other list before
WarmCache(l, items) ==
    LET other == CHOOSE x \in ListIds : x # l
    IN Put(Put(Put(EmptyCache,
                   todoListKeys_all,
                   Query(GetListsResponse(ListIds), TRUE, FALSE, FALSE, FALSE)),
               todoListKeys_detail(other),
               Query(TodoList(other, FALSE, <<>>), TRUE, FALSE, FALSE, FALSE)),
           todoItemKeys_list(other), Query(items, TRUE, FALSE, FALSE, FALSE))

InitWith(lists) ==
    /\ id = "L1"
    /\ pathname = "/lists/:id"
    /\ token = TRUE
    /\ \E s \in lists :
          serverItems = [l \in ListIds |-> IF l = id THEN s ELSE <<TodoItem("A", 0)>>]
    /\ cache \in {EmptyCache, WarmCache(id, <<TodoItem("A", 0)>>)}
    /\ muts = <<>>
    /\ reorderStatus = "idle"
    /\ createMuts = <<>>
    /\ pending = <<>>
    /\ button = IdleButton
    /\ session = SignedIn("TodoListDetailPage")
    /\ lastEvent = NoEvent

\* the items list (DndContext) is rendered
ItemsListRendered ==
    PageRendered /\ ~isLoadingItems /\ ~itemsError /\ Len(SortedNow) > 0

\* a drag starts on a rendered item and ends over one, or over nothing.
\* (The page passes no position to its items, so TodoItem renders no move
\* buttons: on this page dragging is the only way into a reorder handler.)
DragEnd ==
    /\ ItemsListRendered
    /\ \E event \in {e \in DragEvents : /\ e.active \in Ids(SortedNow)
                                        /\ e.over \in Ids(SortedNow) \cup {NoOver}} :
          handleDragEnd(event) /\ lastEvent' = NoEvent

\* the queries the detail page observes
Keys == {todoListKeys_detail(id), todoItemKeys_list(id)}

NextQueries ==
    \/ \E k \in Keys : QueryFetch(k)
    \/ \E k \in Keys : FetchSuccess(k)
    \/ \E k \in Keys, status \in {401, 500} : FetchError(k, status)

\* reordering the items of a list that has some
Init == InitWith(ListsOf({{"A", "B"}}))

Next ==
    \/ NextQueries
    \/ DragEnd
    \/ \E k \in 1..Len(muts) : ReorderSuccess(k)
    \/ \E k \in 1..Len(muts), status \in ErrorStatuses : ReorderFail(k, status)

Spec == Init /\ [][Next]_vars

\* adding items to a list through the form
InitCreate == InitWith(ListsOf({{}, {"A"}, {"A", "B"}}))

NextCreate ==
    \/ NextQueries
    \/ CreateItemSubmit
    \/ CreateItemSuccess
    \/ \E status \in ErrorStatuses : CreateItemFail(status)

SpecCreate == InitCreate /\ [][NextCreate]_vars

(***************************************************************************)
(* Claims about the handlers (checked under SpecHandlers).                 *)
(***************************************************************************)
\* the values of a payload are exactly 0 .. n-1 (n keys, so no duplicates)
Dense(orders) ==
    {orders[i] : i \in DOMAIN orders} = 0..(Cardinality(DOMAIN orders) - 1)

IsHandlerCall == lastEvent.type \in {"handleMoveUp", "handleMoveDown", "handleDragEnd"}

\* the call recorded in lastEvent is one the handler does not return from
\* early: a move with a neighbour to swap with, or a drag between two
\* different items of the list
EffectiveCall ==
    \/ lastEvent.type = "handleMoveUp"
         /\ lastEvent.index >= 1 /\ lastEvent.index <= Len(SortedNow) - 1
    \/ lastEvent.type = "handleMoveDown"
         /\ lastEvent.index >= 0 /\ lastEvent.index <= Len(SortedNow) - 2
    \/ lastEvent.type = "handleDragEnd"
         /\ lastEvent.active # lastEvent.over
         /\ {lastEvent.active, lastEvent.over} \subseteq Ids(SortedNow)

\* C1: every reorder request (from handleDragEnd, handleMoveUp or
\* handleMoveDown) assigns exactly the order values {0, ..., n-1}, without
\* duplicates, to the n items of the list.
C1_OrderDensity ==
    \A k \in 1..Len(muts) : Dense(muts[k].itemOrders)

\* position (0-based) an item at position j ends at when the item at
\* oldIndex is taken out and put back at newIndex
MovedPosition(j, oldIndex, newIndex) ==
    IF j = oldIndex THEN newIndex
    ELSE LET afterRemoval == IF j > oldIndex THEN j - 1 ELSE j
         IN IF afterRemoval >= newIndex THEN afterRemoval + 1 ELSE afterRemoval

\* C2: for a drag from oldIndex to a different valid newIndex,
\* handleDragEnd sends one request that maps every item to the position it
\* has after the item at oldIndex is removed and reinserted at newIndex.
C2_MoveCorrectness ==
    (lastEvent.type = "handleDragEnd" /\ EffectiveCall) =>
        /\ Len(muts) = 1
        /\ LET oldIndex == findIndex(SortedNow, lastEvent.active)
               newIndex == findIndex(SortedNow, lastEvent.over)
           IN /\ DOMAIN muts[1].itemOrders = Ids(SortedNow)
              /\ \A k \in 1..Len(SortedNow) :
                    muts[1].itemOrders[SortedNow[k].id] = MovedPosition(k - 1, oldIndex, newIndex)

\* [A,B,C,D] with orders 0,1,2,3, "move A to index 2" (dropped over C):
\* the request is {B:0, C:1, A:2, D:3}
C2_Witness ==
    /\ SortedNow = <<TodoItem("A", 0), TodoItem("B", 1), TodoItem("C", 2), TodoItem("D", 3)>>
    /\ lastEvent.type = "handleDragEnd" /\ lastEvent.active = "A" /\ lastEvent.over = "C"
    /\ Len(muts) = 1
    /\ muts[1].itemOrders = [i \in ItemIds |->
          CASE i = "B" -> 0 [] i = "C" -> 1 [] i = "A" -> 2 [] i = "D" -> 3]

\* C5: move-up of the item at index i sends the payload of the index move
\* oldIndex = i, newIndex = i-1, and move-down that of oldIndex = i,
\* newIndex = i+1.
C5_SameAsIndexMove ==
    /\ (lastEvent.type = "handleMoveUp" /\ EffectiveCall) =>
          /\ Len(muts) = 1
          /\ muts[1].itemOrders =
               OrdersByIndex(reorderedItems(SortedNow, lastEvent.index, lastEvent.index - 1),
                             [idx \in Indices(SortedNow) |-> idx])
    /\ (lastEvent.type = "handleMoveDown" /\ EffectiveCall) =>
          /\ Len(muts) = 1
          /\ muts[1].itemOrders =
               OrdersByIndex(reorderedItems(SortedNow, lastEvent.index, lastEvent.index + 1),
                             [idx \in Indices(SortedNow) |-> idx])

\* C6: move-up of the item at index 0 and move-down of the item at the last
\* index send nothing and change nothing.
C6_BoundaryNoOp ==
    [][ ( \/ lastEvent'.type = "handleMoveUp" /\ lastEvent'.index = 0
          \/ lastEvent'.type = "handleMoveDown" /\ lastEvent'.index = Len(SortedNow) - 1 )
        => UNCHANGED progvars ]_vars

C6_Witness ==
    /\ lastEvent.type = "handleMoveDown"
    /\ Len(SortedNow) >= 2
    /\ lastEvent.index = Len(SortedNow) - 1
    /\ muts = <<>> /\ reorderStatus = "idle"

\* C7: on a list of 0 or 1 items, handleMoveUp, handleMoveDown and
\* handleDragEnd send nothing and change nothing.
C7_SmallListNoOp ==
    [][ ( /\ lastEvent'.type \in {"handleMoveUp", "handleMoveDown", "handleDragEnd"}
          /\ Len(SortedNow) <= 1 )
        => UNCHANGED progvars ]_vars

C7_Witness ==
    /\ lastEvent.type = "handleMoveDown"
    /\ Len(SortedNow) = 0
    /\ muts = <<>> /\ reorderStatus = "idle"

\* C8: a reorder handler that does not return early starts exactly one
\* mutation (one PATCH per attempt), whose itemOrders has a key for every
\* item the page holds for the list.
C8_FullRelabelOneRequest ==
    EffectiveCall =>
        /\ Len(muts) = 1
        /\ reorderStatus = "pending"
        /\ muts[1].listId = id
        /\ DOMAIN muts[1].itemOrders = Ids(DisplayNow)

C8_Witness ==
    /\ lastEvent.type = "handleMoveUp"
    /\ Len(SortedNow) = 3
    /\ Len(muts) = 1
    /\ DOMAIN muts[1].itemOrders = Ids(DisplayNow)

(***************************************************************************)
(* Claims about the reorder mutation (checked under Spec).                 *)
(***************************************************************************)
\* C3: at no time are two reorder requests for the same list in flight: a
\* reorder asked for while one is pending is queued or rejected
C3_SingleInFlight ==
    \A j, k \in 1..Len(muts) : j # k => muts[j].listId # muts[k].listId

\* the reorder mutation that has just failed for good, as it was pending
FailedMutation == muts[lastEvent'.index]

C10_ReorderInvalidatesItemsOnly ==
    [][ lastEvent'.type = "reorderSuccess"
        => /\ DOMAIN cache' = DOMAIN cache
           /\ \A k \in DOMAIN cache :
                 IF k = todoItemKeys_list(lastEvent'.listId)
                 THEN cache'[k].stale /\ cache'[k].data = cache[k].data
                 ELSE cache'[k] = cache[k] ]_vars

\* a reorder has succeeded in a session that holds the list of all lists,
\* the parent list and another list's entries: only the items are stale
C10_Witness ==
    /\ lastEvent.type = "reorderSuccess"
    /\ lastEvent.listId = id
    /\ HasItemsData /\ ItemsQ.stale
    /\ HasList /\ ~ListQ.stale
    /\ Has(cache, todoListKeys_all) /\ ~cache[todoListKeys_all].stale
    /\ Has(cache, todoItemKeys_list("L2")) /\ ~cache[todoItemKeys_list("L2")].stale

\* the statuses the interceptor's message table and the spec class as
\* validation, auth, notFound and conflict
ClientErrorStatuses == {400, 401, 404, 409, 422}

C9_CreateItemInvalidates ==
    lastEvent.type = "createItemSuccess" =>
        \A k \in {todoItemKeys_list(lastEvent.listId),
                  todoListKeys_detail(lastEvent.listId),
                  todoListKeys_all} :
            Has(cache, k) => cache[k].stale

\* an item has been created in a session that holds all three entries
C9_Witness ==
    /\ lastEvent.type = "createItemSuccess"
    /\ lastEvent.listId = id
    /\ Has(cache, todoItemKeys_list(id)) /\ cache[todoItemKeys_list(id)].stale
    /\ Has(cache, todoListKeys_detail(id)) /\ cache[todoListKeys_detail(id)].stale
    /\ Has(cache, todoListKeys_all) /\ cache[todoListKeys_all].stale
    /\ Len(serverItems[id]) = 3

\* the failures without a response (network error, timeout) and the 5xx
TransientStatuses == {0, 500}

\* C15: a createItem whose request fails without a response or with a 5xx
\* is sent again if that was its first request, and otherwise ends with the
\* error surfaced; no invocation ever gets past its second request
C15_TransientRetriedOnce ==
    [][ /\ \A status \in TransientStatuses :
              CreateItemFail(status) =>
                  IF createMuts[1].failureCount = 0
                  THEN /\ createMuts' = <<[createMuts[1] EXCEPT !.failureCount = 1]>>
                       /\ lastEvent'.type # "createItemError"
                  ELSE /\ createMuts' = <<>>
                       /\ lastEvent'.type = "createItemError"
                       /\ lastEvent'.status = status
        /\ \A k \in 1..Len(createMuts') : createMuts'[k].failureCount + 1 <= 2 ]_vars

\* the retry of a createItem has failed as well and the error is out
C15_Witness ==
    /\ lastEvent.type = "createItemError"
    /\ lastEvent.status \in TransientStatuses
    /\ createMuts = <<>>
    /\ pathname = "/lists/:id"

\* the item is the one a create with this title adds to these items: it is
\* none of them, has the title, and comes right after the largest order (or
\* at 0 when there are none)
IsCreatedItem(x, title, before) ==
    /\ x.id \notin Ids(before)
    /\ x.title = title
    /\ IF before = <<>> THEN x.order = 0
       ELSE /\ \A k \in 1..Len(before) : before[k].order < x.order
            /\ \E k \in 1..Len(before) : before[k].order = x.order - 1

removeQueries(c, queryKey) ==
    [k \in {x \in DOMAIN c : ~MatchesKey(queryKey, x)} |-> c[k]]

\* useDeleteList.onSuccess: the list's entry is removed, the lists invalidated
DeleteListOnSuccess(c, deletedId, active) ==
    invalidateQueries(removeQueries(c, todoListKeys_detail(deletedId)),
                      todoListKeys_all, active)

\* (variant of useDeleteItem's onSuccess without the last invalidation)
DeleteItemOnSuccessNoLists(c, l, i, active) ==
    invalidateQueries(
        invalidateQueries(removeQueries(c, todoItemKeys_detail(l, i)),
                          todoItemKeys_list(l), active),
        todoListKeys_detail(l), active)

\* useDeleteItem.onSuccess
DeleteItemOnSuccess(c, l, i, active) ==
    invalidateQueries(
        invalidateQueries(
            invalidateQueries(removeQueries(c, todoItemKeys_detail(l, i)),
                              todoItemKeys_list(l), active),
            todoListKeys_detail(l), active),
        todoListKeys_all, active)

\* useMarkItemComplete.onSuccess
MarkItemCompleteOnSuccess(c, l, updated, active) ==
    invalidateQueries(
        invalidateQueries(
            setQueryData(invalidateQueries(c, todoItemKeys_list(l), active),
                         todoItemKeys_detail(l, updated.id), updated),
            todoListKeys_detail(l), active),
        todoListKeys_all, active)

\* (variant of useUpdateList's onSuccess that leaves the lists alone)
UpdateListOnSuccessDetailOnly(c, l, active) ==
    invalidateQueries(c, todoListKeys_detail(l), active)

\* useUpdateList.onSuccess
UpdateListOnSuccess(c, l, active) ==
    invalidateQueries(invalidateQueries(c, todoListKeys_all, active),
                      todoListKeys_detail(l), active)

\* a pending mutation of one of these hooks and its variables
Pending(kind, l, i, isCompleted) ==
    [kind |-> kind, listId |-> l, itemId |-> i, isCompleted |-> isCompleted,
     failureCount |-> 0, observed |-> TRUE]

\* isPending of the hook in the mounted component
IsPending(kind, i) ==
    \E k \in 1..Len(pending) :
        pending[k].kind = kind /\ pending[k].itemId = i /\ pending[k].observed

ItemOf(items, i) == items[CHOOSE k \in 1..Len(items) : items[k].id = i]

\* handleDeleteList, confirmed (the button is disabled while pending)
DeleteListSubmit ==
    /\ PageRendered
    /\ Len(pending) < MaxPending
    /\ ~IsPending("deleteList", "")
    /\ pending' = Append(pending, Pending("deleteList", id, "", FALSE))
    /\ lastEvent' = NoEvent
    /\ UNCHANGED <<button, id, pathname, token, serverItems, cache, muts, reorderStatus, createMuts,
                   session>>

\* TodoItem.handleDeleteConfirm on a rendered item
DeleteItemSubmit(i) ==
    /\ ItemsListRendered
    /\ i \in Ids(SortedNow)
    /\ Len(pending) < MaxPending
    /\ ~IsPending("deleteItem", i)
    /\ pending' = Append(pending, Pending("deleteItem", id, i, FALSE))
    /\ lastEvent' = NoEvent
    /\ UNCHANGED <<button, id, pathname, token, serverItems, cache, muts, reorderStatus, createMuts,
                   session>>

\* TodoItem.handleToggleComplete on a rendered item (the checkbox is
\* disabled while its mutation is pending)
ToggleCompleteSubmit(i) ==
    /\ ItemsListRendered
    /\ i \in Ids(SortedNow)
    /\ Len(pending) < MaxPending
    /\ ~IsPending("toggleComplete", i)
    /\ pending' = Append(pending, Pending("toggleComplete", id, i,
                                          ~ItemOf(SortedNow, i).isCompleted))
    /\ lastEvent' = NoEvent
    /\ UNCHANGED <<button, id, pathname, token, serverItems, cache, muts, reorderStatus, createMuts,
                   session>>

\* EditListForm: updateList.mutate({ id: list.id, data }) for the list
\* shown, with a valid and changed form
UpdateListSubmit ==
    /\ PageRendered
    /\ Len(pending) < MaxPending
    /\ ~IsPending("updateList", "")
    /\ pending' = Append(pending, Pending("updateList", id, "", FALSE))
    /\ lastEvent' = NoEvent
    /\ UNCHANGED <<button, id, pathname, token, serverItems, cache, muts, reorderStatus, createMuts,
                   session>>

\* DELETE /api/List/{id} answered: the list and its items are gone; the
\* page's own onSuccess then navigates to /lists
DeleteListSuccess(k) ==
    LET m == pending[k]
    IN /\ m.kind = "deleteList"
       /\ m.listId \in DOMAIN serverItems
       /\ serverItems' = [l \in DOMAIN serverItems \ {m.listId} |-> serverItems[l]]
       /\ cache' = DeleteListOnSuccess(cache, m.listId, ActiveKeys(cache, pathname, id))
       /\ pathname' = "/lists"
       /\ session' = [session EXCEPT !.element = "TodoListsPage"]
       /\ lastEvent' = [Ev("deleteListSuccess") EXCEPT !.listId = m.listId]

\* DELETE /api/lists/{listId}/items/{itemId} answered
DeleteItemSuccess(k) ==
    LET m == pending[k]
    IN /\ m.kind = "deleteItem"
       /\ m.listId \in DOMAIN serverItems
       /\ m.itemId \in Ids(serverItems[m.listId])
       /\ serverItems' =
            [serverItems EXCEPT ![m.listId] =
                SpliceOut(@, findIndex(@, m.itemId))]
       /\ cache' = DeleteItemOnSuccess(cache, m.listId, m.itemId,
                                       ActiveKeys(cache, pathname, id))
       /\ lastEvent' = [Ev("deleteItemSuccess") EXCEPT !.listId = m.listId]
       /\ UNCHANGED <<pathname, session>>

\* PATCH .../complete?isCompleted= answered with the updated item
MarkItemCompleteSuccess(k) ==
    LET m == pending[k]
    IN /\ m.kind = "toggleComplete"
       /\ m.listId \in DOMAIN serverItems
       /\ m.itemId \in Ids(serverItems[m.listId])
       /\ LET updated == [ItemOf(serverItems[m.listId], m.itemId)
                            EXCEPT !.isCompleted = m.isCompleted]
          IN /\ serverItems' =
                  [serverItems EXCEPT ![m.listId] =
                      [j \in 1..Len(@) |-> IF @[j].id = m.itemId THEN updated ELSE @[j]]]
             /\ cache' = MarkItemCompleteOnSuccess(cache, m.listId, updated,
                                                   ActiveKeys(cache, pathname, id))
       /\ lastEvent' = [Ev("toggleCompleteSuccess") EXCEPT !.listId = m.listId]
       /\ UNCHANGED <<pathname, session>>

\* PUT /api/List/{id} answered (the fields of a list it changes are not
\* part of this model's lists)
UpdateListSuccess(k) ==
    LET m == pending[k]
    IN /\ m.kind = "updateList"
       /\ m.listId \in DOMAIN serverItems
       /\ cache' = UpdateListOnSuccess(cache, m.listId, ActiveKeys(cache, pathname, id))
       /\ lastEvent' = [Ev("updateListSuccess") EXCEPT !.listId = m.listId]
       /\ UNCHANGED <<serverItems, pathname, session>>

MutationSuccess(k) ==
    /\ \/ DeleteListSuccess(k)
       \/ DeleteItemSuccess(k)
       \/ MarkItemCompleteSuccess(k)
       \/ UpdateListSuccess(k)
    /\ muts' = Touched(muts)
    /\ UNCHANGED <<button, id, token, reorderStatus, createMuts>>
    /\ pending' = StillObserved(RemoveAt(pending, k))

\* the request of a pending mutation failed with this status
MutationFail(k, status) ==
    /\ lastEvent' = IF isAuthError(status) THEN Unauthorized ELSE NoEvent
    /\ IF RedirectsToLogin(status) THEN Reloaded
       ELSE /\ pending' = IF retry(pending[k].failureCount, status)
                          THEN [pending EXCEPT ![k].failureCount = @ + 1]
                          ELSE RemoveAt(pending, k)
            /\ token' = TokenAfter(status)
            /\ UNCHANGED <<button, id, pathname, serverItems, cache, muts, reorderStatus,
                           createMuts, session>>

(***************************************************************************)
(* SpecMutations: the detail page with these mutations, then the lists     *)
(* page the deletion of the list leads to.                                 *)
(***************************************************************************)
KeysAll == Keys \cup {todoListKeys_all}

NextQueriesAll ==
    \/ \E k \in KeysAll : QueryFetch(k)
    \/ \E k \in KeysAll : FetchSuccess(k)
    \/ \E k \in KeysAll, status \in {401, 404, 500} : FetchError(k, status)

\* a list of one item: it can be completed, deleted, or go with its list
InitMutations == InitWith(ListsOf({{"A"}}))

NextMutations ==
    \/ NextQueriesAll
    \/ DeleteListSubmit
    \/ \E i \in ItemIds : DeleteItemSubmit(i)
    \/ \E i \in ItemIds : ToggleCompleteSubmit(i)
    \/ UpdateListSubmit
    \/ \E k \in 1..Len(pending) : MutationSuccess(k)
    \/ \E k \in 1..Len(pending), status \in ErrorStatuses : MutationFail(k, status)

SpecMutations == InitMutations /\ [][NextMutations]_vars

(***************************************************************************)
(* Claims about these mutations (checked under SpecMutations).             *)
(***************************************************************************)
\* an entry that is invalidated, or not there at all
IsStale(c, k) == Has(c, k) => c[k].stale

\* C11: once deleteList has succeeded for a list, the list of all lists is
\* stale and the cache holds neither the list's entry nor its items' entry
C11_DeleteListRemovesBoth ==
    lastEvent.type = "deleteListSuccess" =>
        /\ IsStale(cache, todoListKeys_all)
        /\ ~Has(cache, todoListKeys_detail(lastEvent.listId))
        /\ ~Has(cache, todoItemKeys_list(lastEvent.listId))

\* C12: once deleteItem or toggleComplete has succeeded for an item of a
\* list, the list's items, the list itself and the list of all lists are
\* stale in the cache
C12_ItemMutationInvalidates ==
    lastEvent.type \in {"deleteItemSuccess", "toggleCompleteSuccess"} =>
        /\ IsStale(cache, todoItemKeys_list(lastEvent.listId))
        /\ IsStale(cache, todoListKeys_detail(lastEvent.listId))
        /\ IsStale(cache, todoListKeys_all)

\* an item has been deleted, or its completion toggled, in a session that
\* holds all three entries
C12_Witness ==
    /\ lastEvent.type \in {"deleteItemSuccess", "toggleCompleteSuccess"}
    /\ lastEvent.listId = id
    /\ Has(cache, todoItemKeys_list(id)) /\ cache[todoItemKeys_list(id)].stale
    /\ Has(cache, todoListKeys_detail(id)) /\ cache[todoListKeys_detail(id)].stale
    /\ Has(cache, todoListKeys_all) /\ cache[todoListKeys_all].stale

\* C13: once updateList has succeeded for a list, the list of all lists
\* and the list itself are stale in the cache
C13_UpdateListInvalidates ==
    lastEvent.type = "updateListSuccess" =>
        /\ IsStale(cache, todoListKeys_all)
        /\ IsStale(cache, todoListKeys_detail(lastEvent.listId))

\* a list has been updated in a session that holds both entries
C13_Witness ==
    /\ lastEvent.type = "updateListSuccess"
    /\ lastEvent.listId = id
    /\ Has(cache, todoListKeys_all) /\ cache[todoListKeys_all].stale
    /\ Has(cache, todoListKeys_detail(id)) /\ cache[todoListKeys_detail(id)].stale

(***************************************************************************)
(* SpecReads: subscribers of the queries (useTodoLists, useTodoList and    *)
(* useTodoItems observers) arriving while the entries are absent, stale,   *)
(* fresh or being fetched.                                                 *)
(***************************************************************************)
\* the entry a subscriber finds, or the one useQuery creates for the key
EntryOf(c, k) == IF Has(c, k) THEN c[k] ELSE Query(DefaultData(k), FALSE, FALSE, FALSE, FALSE)

\* the subscriber has to wait for a fetch: no data yet, or invalidated data
NeedsFetch(q) == q.stale \/ ~q.hasData

\* (variant in which every waiting subscriber sends its own request)
ReadRequestsEach(q) == IF NeedsFetch(q) THEN 1 ELSE 0

\* the requests a new subscriber sends: one if a fetch is needed and none is
\* running for the key, none if it can join the running fetch or use fresh data
ReadRequests(q) == IF NeedsFetch(q) /\ ~q.fetching THEN 1 ELSE 0

\* a component subscribes to the key with useQuery
Read(k) ==
    /\ token
    /\ LET q == EntryOf(cache, k)
           waits == NeedsFetch(q) \/ q.fetching
       IN /\ q.waiters < MaxReaders
          /\ cache' = Put(cache, k,
                          [q EXCEPT !.fetching = waits,
                                    !.waiters = IF waits THEN @ + 1 ELSE @,
                                    !.requests = @ + ReadRequests(q)])
          /\ lastEvent' = [Ev("read") EXCEPT !.index = ReadRequests(q)]
    /\ muts' = Touched(muts)
    /\ UNCHANGED <<button, id, pathname, token, serverItems, reorderStatus, createMuts,
                   pending, session>>

\* entries as earlier pages of the session have left them: not there,
\* loaded and fresh, or loaded and invalidated since
LoadedData(k, items) ==
    IF k = todoListKeys_all THEN GetListsResponse(ListIds)
    ELSE IF k = todoItemKeys_list(id) THEN GetItemsResponse(items)
    ELSE TodoList(id, FALSE, <<>>)

InitReads ==
    /\ id = "L1"
    /\ pathname = "/lists/:id"
    /\ token = TRUE
    /\ \E s \in ListsOf({{"A"}, {"A", "B"}}) :
          /\ serverItems = [l \in ListIds |-> IF l = id THEN s ELSE <<TodoItem("A", 0)>>]
          /\ \E hold \in SUBSET KeysAll, invalidated \in SUBSET KeysAll :
                /\ invalidated \subseteq hold
                /\ cache = [k \in hold |->
                              Query(LoadedData(k, s), TRUE, k \in invalidated, FALSE, FALSE)]
    /\ muts = <<>>
    /\ reorderStatus = "idle"
    /\ createMuts = <<>>
    /\ pending = <<>>
    /\ button = IdleButton
    /\ session = SignedIn("TodoListDetailPage")
    /\ lastEvent = NoEvent

NextReads ==
    \/ \E k \in KeysAll : Read(k)
    \/ \E k \in KeysAll : FetchSuccess(k)
    \/ \E k \in KeysAll, status \in {401, 500} : FetchError(k, status)

SpecReads == InitReads /\ [][NextReads]_vars

Paths == {"/", "/login", "/register", "/lists", "/lists/:id", "/other"}

\* AuthContext's isAuthenticated: user !== null && authService.isAuthenticated()
isAuthenticated(s, tok) == s.user /\ tok

\* what a route's element comes to: an element on the screen, or <Navigate>
Element(e) == [navigate |-> "", element |-> e]
NavigateTo(path) == [navigate |-> path, element |-> ""]

\* (variant of ProtectedRoute without the isAuthenticated test)
ProtectedRouteOpen(page, loading, auth) ==
    IF loading THEN Element("loading") ELSE Element(page)

ProtectedRoute(page, loading, auth) ==
    IF loading THEN Element("loading")
    ELSE IF ~auth THEN NavigateTo("/login")
    ELSE Element(page)

AuthRedirect(page, loading, auth) ==
    IF loading THEN Element("loading")
    ELSE IF auth THEN NavigateTo("/lists")
    ELSE Element(page)

\* (variant of RootRedirect that decides before the check is over)
RootRedirectEarly(loading, auth) ==
    IF auth THEN NavigateTo("/lists") ELSE NavigateTo("/login")

RootRedirect(loading, auth) ==
    IF loading THEN Element("loading")
    ELSE IF auth THEN NavigateTo("/lists")
    ELSE NavigateTo("/login")

\* <Routes> of App
Routes(path, loading, auth) ==
    CASE path = "/" -> RootRedirect(loading, auth)
      [] path = "/login" -> AuthRedirect("Login", loading, auth)
      [] path = "/register" -> AuthRedirect("Register", loading, auth)
      [] path = "/lists" -> ProtectedRoute("TodoListsPage", loading, auth)
      [] path = "/lists/:id" -> ProtectedRoute("TodoListDetailPage", loading, auth)
      [] OTHER -> NavigateTo("/")

\* the router follows <Navigate> until a route shows an element
RECURSIVE Render(_, _, _)
Render(path, loading, auth) ==
    LET r == Routes(path, loading, auth)
    IN IF r.navigate = "" THEN [pathname |-> path, element |-> r.element]
       ELSE Render(r.navigate, loading, auth)

\* the application renders at this location with this session and token
ShowAt(path, s, tok) ==
    LET r == Render(path, s.isLoading, isAuthenticated(s, tok))
    IN /\ pathname' = r.pathname
       /\ session' = [s EXCEPT !.element = r.element]

\* (variant of loadUserFromStorage that does not look for the token)
loadedUserUnverified(storedUser, tok) == storedUser = "valid"

\* loadUserFromStorage: the stored user becomes the user when it parses and
\* authService.isAuthenticated() finds a token
loadedUser(storedUser, tok) == storedUser = "valid" /\ tok

\* AuthProvider's effect on mount: loadUserFromStorage. A stored user that
\* does not parse, or one without a token, is removed
LoadUserFromStorage ==
    /\ session.isLoading
    /\ LET loaded == loadedUser(session.storedUser, token)
       IN ShowAt(pathname,
                 [session EXCEPT !.user = loaded,
                                 !.storedUser = IF loaded THEN "valid" ELSE "none",
                                 !.isLoading = FALSE],
                 token)
    /\ lastEvent' = [Ev("loadUserFromStorage") EXCEPT !.over = session.storedUser]
    /\ UNCHANGED <<button, id, token, serverItems, cache, muts, reorderStatus, createMuts, pending>>

\* the browser loads the application at a location (address bar, reload):
\* everything in memory starts over, localStorage stays
Visit(path) ==
    /\ cache' = EmptyCache
    /\ muts' = <<>>
    /\ reorderStatus' = "idle"
    /\ createMuts' = <<>>
    /\ pending' = <<>>
    /\ ShowAt(path, [session EXCEPT !.user = FALSE, !.isLoading = TRUE], token)
    /\ lastEvent' = [Ev("visit") EXCEPT !.active = path]
    /\ UNCHANGED <<button, id, token, serverItems>>

\* a link, navigate() or the history moves the running application
GoTo(path) ==
    /\ ~session.isLoading
    /\ ShowAt(path, session, token)
    /\ lastEvent' = [Ev("goTo") EXCEPT !.active = path]
    /\ UNCHANGED <<button, id, token, serverItems, cache, muts, reorderStatus, createMuts>>
    /\ pending' = StillObserved(pending)

\* Login.handleSubmit with a valid form: login(formData)
LoginSubmit ==
    /\ session.element = "Login"
    /\ Len(pending) < MaxPending
    /\ ~IsPending("login", "")
    /\ pending' = Append(pending, Pending("login", "", "", FALSE))
    /\ lastEvent' = NoEvent
    /\ UNCHANGED <<button, id, pathname, token, serverItems, cache, muts, reorderStatus, createMuts,
                   session>>

\* Register.handleSubmit with a valid form: register(registerData)
RegisterSubmit ==
    /\ session.element = "Register"
    /\ Len(pending) < MaxPending
    /\ ~IsPending("register", "")
    /\ pending' = Append(pending, Pending("register", "", "", FALSE))
    /\ lastEvent' = NoEvent
    /\ UNCHANGED <<button, id, pathname, token, serverItems, cache, muts, reorderStatus, createMuts,
                   session>>

\* POST /api/Auth/login or /register answered: authService stores the
\* token, onSuccess sets and stores the user and invalidates every query
AuthSuccess(k) ==
    /\ pending[k].kind \in {"login", "register"}
    /\ token' = TRUE
    /\ cache' = invalidateQueries(cache, <<>>, ActiveKeys(cache, pathname, id))
    /\ pending' = RemoveAt(pending, k)
    /\ ShowAt(pathname, [session EXCEPT !.user = TRUE, !.storedUser = "valid"], TRUE)
    /\ lastEvent' = Ev("authSuccess")
    /\ muts' = Touched(muts)
    /\ UNCHANGED <<button, id, serverItems, reorderStatus, createMuts>>

\* (variant of logout that leaves the query cache alone)
LogoutCacheKept(c) == c

\* logout(): queryClient.clear() drops every query; a fetch that is
\* running is cancelled with its query
LogoutCache(c) == EmptyCache

\* handleLogout of the pages: logout(), then navigate('/login').  The
\* requests of the pending mutations are not cancelled: they are answered
\* later and the hooks' onSuccess still runs
Logout ==
    /\ session.element \in Pages
    /\ token' = FALSE
    /\ cache' = LogoutCache(cache)
    /\ reorderStatus' = "idle"
    /\ ShowAt("/login", [session EXCEPT !.user = FALSE, !.storedUser = "none"], FALSE)
    /\ lastEvent' = Ev("logout")
    /\ UNCHANGED <<button, id, serverItems, muts, createMuts>>
    /\ pending' = StillObserved(pending)

(***************************************************************************)
(* SpecAuth: the application from the load of any location, with the       *)
(* gateway calls of a session: queries, a mutation, login and register.    *)
(***************************************************************************)
InitAuth ==
    /\ id = "L1"
    /\ token \in BOOLEAN
    /\ serverItems = [l \in ListIds |-> <<TodoItem("A", 0)>>]
    /\ cache = EmptyCache
    /\ muts = <<>>
    /\ reorderStatus = "idle"
    /\ createMuts = <<>>
    /\ pending = <<>>
    /\ button = IdleButton
    /\ \E path \in Paths, storedUser \in {"none", "valid", "corrupt"} :
          /\ pathname = Render(path, TRUE, FALSE).pathname
          /\ session = Session(FALSE, TRUE, storedUser, "loading")
          /\ lastEvent = [Ev("visit") EXCEPT !.active = path]

NextAuth ==
    \/ LoadUserFromStorage
    \/ \E path \in Paths : Visit(path)
    \/ \E path \in Paths : GoTo(path)
    \/ LoginSubmit
    \/ RegisterSubmit
    \/ \E k \in 1..Len(pending) : AuthSuccess(k)
    \/ Logout
    \/ NextQueriesAll
    \/ UpdateListSubmit
    \/ \E k \in 1..Len(pending) : MutationSuccess(k)
    \/ \E k \in 1..Len(pending), status \in {0, 401, 500} : MutationFail(k, status)

SpecAuth == InitAuth /\ [][NextAuth]_vars

\* the first check of every load comes to its end: nothing AuthProvider's
\* effect does can block
FairAuth == SpecAuth /\ WF_vars(LoadUserFromStorage)

(***************************************************************************)
(* Claims about the session (checked under SpecAuth).                      *)
(***************************************************************************)
AuthPaths == {"/login", "/register"}

\* C17: whenever a gateway call is answered 401 the token is removed, and
\* the application is sent to /login (by a reload) unless it is on /login
\* or on /register, where it stays
C17_UnauthorizedClearsAndRedirects ==
    lastEvent.type = "unauthorized" =>
        /\ ~token
        /\ IF lastEvent.active \in AuthPaths
           THEN pathname = lastEvent.active
           ELSE pathname = "/login" /\ session.isLoading

\* (as stated) ... unless the current location already is /login
C17_UnlessOnLogin ==
    lastEvent.type = "unauthorized" =>
        /\ ~token
        /\ lastEvent.active # "/login" => pathname = "/login"

\* a query or mutation of the detail page was answered 401
C17_Witness ==
    /\ lastEvent.type = "unauthorized"
    /\ lastEvent.active = "/lists/:id"
    /\ pathname = "/login"
    /\ ~token

C19_NoDecisionWhileLoading ==
    session.isLoading =>
        /\ session.element = "loading"
        /\ lastEvent.type = "visit" =>
              pathname = IF lastEvent.active = "/other" THEN "/" ELSE lastEvent.active

\* C19: from the load of the application until AuthProvider's first check
\* is over the guards decide nothing and show the loading state, and the
\* check does come to its end, whatever the stored user data is
C19_LoadingWindow ==
    /\ []C19_NoDecisionWhileLoading
    /\ session.isLoading ~> ~session.isLoading

\* the check has completed on unreadable stored user data
C19_Witness ==
    /\ lastEvent.type = "loadUserFromStorage"
    /\ ~session.isLoading
    /\ ~session.user
    /\ token
    /\ lastEvent.over = "corrupt"
    /\ session.storedUser = "none"
    /\ session.element = "Login"

(***************************************************************************)
(* The forms: CreateItemForm, EditItemForm, CreateListForm, EditListForm.  *)
(***************************************************************************)
\* what validate() reads of a form's fields: the whitespace and the other
\* characters of the title (or name), the length of the description, the
\* due date ("" when none is set); and whether hasChanges() holds
FormInput(ws, chars, description, dueDate, changed) ==
    [ws |-> ws, chars |-> chars, description |-> description, dueDate |-> dueDate,
     changed |-> changed]

\* title.length and title.trim().length
TitleLength(input) == input.ws + input.chars
TrimmedLength(input) == input.chars

\* the title typed: the characters between the blanks
TypedTitle(input) ==
    [k \in 1..TitleLength(input) |->
        IF k <= input.ws \div 2 \/ k > input.ws \div 2 + input.chars THEN " " ELSE "a"]

\* the inputs tried: titles that are empty, blank, short, at and around the
\* limit, padded with blanks; descriptions at and over the limit
FormInputs(dueDates, changes) ==
    {FormInput(ws, chars, description, dueDate, changed) :
        ws \in {0, 2},
        chars \in {0, 1, MaxTitleLength - 1, MaxTitleLength, MaxTitleLength + 1},
        description \in {0, MaxDescriptionLength, MaxDescriptionLength + 1},
        dueDate \in dueDates,
        changed \in changes}

\* the item forms have a due date, the edit forms something to compare with
CreateItemInputs == FormInputs({"", "invalid"}, {TRUE})
EditItemInputs == FormInputs({"", "invalid"}, BOOLEAN)
CreateListInputs == FormInputs({""}, {TRUE})
EditListInputs == FormInputs({""}, BOOLEAN)

\* (variant of the title check without the length limit)
TitleErrorsRequiredOnly(input) ==
    IF TrimmedLength(input) = 0 THEN {"title"} ELSE {}

\* if (!title.trim()) ... else if (title.length > 200) ...
TitleErrors(input) ==
    IF TrimmedLength(input) = 0 THEN {"title"}
    ELSE IF TitleLength(input) > MaxTitleLength THEN {"title"}
    ELSE {}

\* if (description.length > 1000) ...
DescriptionErrors(input) ==
    IF input.description > MaxDescriptionLength THEN {"description"} ELSE {}

\* validate() of the item forms: the fields with an error
validateItem(input) ==
    TitleErrors(input) \cup DescriptionErrors(input) \cup
    (IF input.dueDate = "invalid" THEN {"dueDate"} ELSE {})

\* validate() of the list forms (no due date there)
validateList(input) == TitleErrors(input) \cup DescriptionErrors(input)

\* (history) a form was submitted with this input; validate() set these errors
Submitted(form, input, errors) ==
    [type |-> "submit", index |-> -1, active |-> form, over |-> "", status |-> 0,
     listId |-> "", clean |-> FALSE, input |-> input, errors |-> errors]

\* CreateItemForm.handleSubmit (the inputs are disabled while pending)
SubmitCreateItem(input) ==
    /\ PageRendered
    /\ createMuts = <<>>
    /\ Len(serverItems[id]) < MaxItems
    /\ lastEvent' = Submitted("CreateItemForm", input, validateItem(input))
    /\ IF validateItem(input) # {} THEN UNCHANGED progvars
       ELSE /\ createMuts' = <<CreateMutation(id, TypedTitle(input))>>
            /\ UNCHANGED <<button, id, pathname, token, serverItems, cache, muts, reorderStatus,
                           pending, session>>

\* EditItemForm.handleSubmit for an item of the list
SubmitEditItem(i, input) ==
    /\ ItemsListRendered
    /\ i \in Ids(SortedNow)
    /\ Len(pending) < MaxPending
    /\ ~IsPending("updateItem", i)
    /\ lastEvent' = Submitted("EditItemForm", input, validateItem(input))
    /\ IF validateItem(input) # {} \/ ~input.changed THEN UNCHANGED progvars
       ELSE /\ pending' = Append(pending, Pending("updateItem", id, i, FALSE))
            /\ UNCHANGED <<button, id, pathname, token, serverItems, cache, muts, reorderStatus,
                           createMuts, session>>

\* CreateListForm.handleSubmit on the lists page
SubmitCreateList(input) ==
    /\ pathname = "/lists"
    /\ session.element = "TodoListsPage"
    /\ token
    /\ Len(pending) < MaxPending
    /\ ~IsPending("createList", "")
    /\ lastEvent' = Submitted("CreateListForm", input, validateList(input))
    /\ IF validateList(input) # {} THEN UNCHANGED progvars
       ELSE /\ pending' = Append(pending, Pending("createList", "", "", FALSE))
            /\ UNCHANGED <<button, id, pathname, token, serverItems, cache, muts, reorderStatus,
                           createMuts, session>>

\* EditListForm.handleSubmit for the list shown
SubmitEditList(input) ==
    /\ PageRendered
    /\ Len(pending) < MaxPending
    /\ ~IsPending("updateList", "")
    /\ lastEvent' = Submitted("EditListForm", input, validateList(input))
    /\ IF validateList(input) # {} \/ ~input.changed THEN UNCHANGED progvars
       ELSE /\ pending' = Append(pending, Pending("updateList", id, "", FALSE))
            /\ UNCHANGED <<button, id, pathname, token, serverItems, cache, muts, reorderStatus,
                           createMuts, session>>

(***************************************************************************)
(* SpecForms: the forms of the detail page and of the lists page are       *)
(* submitted with any of the inputs.                                       *)
(***************************************************************************)
\* either page, with the entries of the session loaded
InitForms ==
    /\ id = "L1"
    /\ token = TRUE
    /\ serverItems = [l \in ListIds |-> <<TodoItem("A", 0)>>]
    /\ cache = [k \in KeysAll |->
                  Query(LoadedData(k, serverItems[id]), TRUE, FALSE, FALSE, FALSE)]
    /\ muts = <<>>
    /\ reorderStatus = "idle"
    /\ createMuts = <<>>
    /\ pending = <<>>
    /\ button = IdleButton
    /\ \E path \in {"/lists", "/lists/:id"} :
          /\ pathname = path
          /\ session = SignedIn(Render(path, FALSE, TRUE).element)
    /\ lastEvent = NoEvent

\* the requests of the valid submissions stay pending here: how they are
\* answered is the matter of the other specifications
NextForms ==
    \/ \E path \in {"/lists", "/lists/:id"} : GoTo(path)
    \/ \E input \in CreateItemInputs : SubmitCreateItem(input)
    \/ \E i \in ItemIds, input \in EditItemInputs : SubmitEditItem(i, input)
    \/ \E input \in CreateListInputs : SubmitCreateList(input)
    \/ \E input \in EditListInputs : SubmitEditList(input)

SpecForms == InitForms /\ [][NextForms]_vars

(***************************************************************************)
(* Claims about the forms (checked under SpecForms).                       *)
(***************************************************************************)
\* the inputs the claim is about: a title (or name) that is empty or all
\* whitespace, or longer than 200 characters, or a description longer than
\* 1000 characters
RejectedInput(input) ==
    \/ input.chars = 0
    \/ input.ws + input.chars > 200
    \/ input.description > 1000

\* C20: the submission of any of the four forms with such an input sends
\* no request and changes nothing: no mutation becomes pending, and the
\* cache, the server and the location stay as they are
C20_InvalidSubmitNoRequest ==
    [][ lastEvent'.type = "submit" /\ RejectedInput(lastEvent'.input) =>
            /\ UNCHANGED progvars
            /\ lastEvent'.errors # {} ]_vars

\* the create-item form was submitted with a title of blanks only
C20_Witness ==
    /\ lastEvent.type = "submit"
    /\ lastEvent.active = "CreateItemForm"
    /\ lastEvent.input.ws = 2 /\ lastEvent.input.chars = 0
    /\ lastEvent.input.description = 0
    /\ lastEvent.errors = {"title"}
    /\ createMuts = <<>>

(***************************************************************************)
(* The move controls of TodoItem (Move Up / Move Down buttons), as the     *)
(* detail page renders its items.                                          *)
(***************************************************************************)
\* the optional `position` prop of TodoItem: undefined, or a 1-based number
NoPosition == [defined |-> FALSE, value |-> 0]

\* the props the page gives the item at this index of sortedItems: isFirst,
\* isLast, onMoveUp, onMoveDown, isReordering; it passes no position
PageItemProps(index) ==
    [isFirst |-> index = 0,
     isLast |-> index = Len(SortedNow) - 1,
     onMoveUp |-> TRUE,
     onMoveDown |-> TRUE,
     isReordering |-> reorderStatus = "pending",
     position |-> NoPosition]

\* {(onMoveUp || onMoveDown) && position !== undefined && ( ...buttons... )}
MoveControlsRendered(props) ==
    (props.onMoveUp \/ props.onMoveDown) /\ props.position.defined

\* disabled={isFirst || isReordering || markComplete.isPending || deleteItem.isPending}
MoveUpDisabled(props, itemId) ==
    \/ props.isFirst
    \/ props.isReordering
    \/ IsPending("toggleComplete", itemId)
    \/ IsPending("deleteItem", itemId)

\* disabled={isLast || isReordering || markComplete.isPending || deleteItem.isPending}
MoveDownDisabled(props, itemId) ==
    \/ props.isLast
    \/ props.isReordering
    \/ IsPending("toggleComplete", itemId)
    \/ IsPending("deleteItem", itemId)

\* the user can press Move Up (Move Down) on the item at this index
CanMoveUp(index) ==
    /\ ItemsListRendered
    /\ MoveControlsRendered(PageItemProps(index))
    /\ ~MoveUpDisabled(PageItemProps(index), SortedNow[index + 1].id)

CanMoveDown(index) ==
    /\ ItemsListRendered
    /\ MoveControlsRendered(PageItemProps(index))
    /\ ~MoveDownDisabled(PageItemProps(index), SortedNow[index + 1].id)

\* C22: whenever the detail page shows a list of two or more items with no
\* reorder, completion toggle or delete pending, Move Up can be pressed on
\* every item but the first and Move Down on every item but the last
C22_MoveControlsUsable ==
    ( /\ ItemsListRendered
      /\ Len(SortedNow) >= 2
      /\ reorderStatus # "pending" /\ muts = <<>>
      /\ pending = <<>> )
    => \A index \in Indices(SortedNow) :
          /\ index > 0 => CanMoveUp(index)
          /\ index < Len(SortedNow) - 1 => CanMoveDown(index)

(***************************************************************************)
(* SpecButton: a Button with an onClick handler is rendered with any       *)
(* props, re-rendered with others, and clicked.                            *)
(***************************************************************************)
\* most clicks on the button
MaxClicks == 6

\* `disabled || loading` of the props
Truthy(prop) == prop = "true"

\* (variant of the disabled attribute that ignores loading)
DisabledAttributeNoLoading(disabled, loading) == Truthy(disabled)

\* <button disabled={disabled || loading} ... {...props}>: the rest props
\* cannot hold `disabled`, which is destructured out of them
DisabledAttribute(disabled, loading) == Truthy(disabled) \/ loading

\* the parent renders the button again, with these props
ButtonRender(disabled, loading) ==
    /\ button' = [button EXCEPT !.disabled = disabled, !.loading = loading]
    /\ lastEvent' = Ev("render")
    /\ UNCHANGED <<id, pathname, token, serverItems, cache, muts, reorderStatus, createMuts,
                   pending, session>>

\* the user clicks: a disabled <button> dispatches no click event, any
\* other calls the onClick of the rest props once
ButtonClick ==
    /\ button.clicks < MaxClicks
    /\ button' = [button EXCEPT
                     !.clicks = @ + 1,
                     !.calls = IF DisabledAttribute(button.disabled, button.loading)
                               THEN @ ELSE @ + 1]
    /\ lastEvent' = Ev("click")
    /\ UNCHANGED <<id, pathname, token, serverItems, cache, muts, reorderStatus, createMuts,
                   pending, session>>

InitButton ==
    /\ id = "L1"
    /\ pathname = "/lists/:id"
    /\ token = TRUE
    /\ serverItems = [l \in ListIds |-> <<>>]
    /\ cache = EmptyCache
    /\ muts = <<>>
    /\ reorderStatus = "idle"
    /\ createMuts = <<>>
    /\ pending = <<>>
    /\ session = SignedIn("TodoListDetailPage")
    /\ \E disabled \in DisabledProps, loading \in BOOLEAN : button = Button(disabled, loading)
    /\ lastEvent = NoEvent

NextButton ==
    \/ \E disabled \in DisabledProps, loading \in BOOLEAN : ButtonRender(disabled, loading)
    \/ ButtonClick

SpecButton == InitButton /\ [][NextButton]_vars

\* C23: a click on a Button that is disabled or loading calls its onClick
\* not at all, and a click on a Button that is neither calls it exactly
\* once, whatever was clicked and rendered before
C23_ButtonClicks ==
    [][ ButtonClick =>
            /\ button'.clicks = button.clicks + 1
            /\ button'.calls =
                 IF button.disabled = "true" \/ button.loading
                 THEN button.calls ELSE button.calls + 1 ]_vars

\* of three clicks, two were made while the button was loading
C23_Witness ==
    /\ button.clicks = 3
    /\ button.calls = 1
    /\ button.loading
    /\ button.disabled = "undefined"
    /\ lastEvent.type = "click"

(***************************************************************************)
(* SpecReorder: reordering a list of three items against a backend and a   *)
(* network that never fail, so that the server's list is at every moment   *)
(* the outcome of the reorders that have succeeded.                        *)
(***************************************************************************)
InitReorder == InitWith(ListsOf({{"A", "B", "C"}}))

NextReorder ==
    \/ \E k \in Keys : QueryFetch(k)
    \/ \E k \in Keys : FetchSuccess(k)
    \/ DragEnd
    \/ \E k \in 1..Len(muts) : ReorderSuccess(k)

SpecReorder == InitReorder /\ [][NextReorder]_vars

\* C24: a reorder payload sent while no other reorder is in flight is one
\* that handleDragEnd computes from the list as the succeeded reorders have
\* left it on the server, so that applying it keeps what they did
C24_PayloadFromCurrentOrder ==
    [][ (muts = <<>> /\ Len(muts') = 1) =>
            \E event \in DragEvents :
                Request(muts'[1].itemOrders) =
                    DragEndRequest(id, GetItemsResponse(serverItems[id]), event) ]_vars

(***************************************************************************)
(* FairSpec: Spec with requests that end.  apiClient gives every request   *)
(* a timeout (10 s), so a fetch that is running is answered, or fails.     *)
(***************************************************************************)
FetchSettles ==
    \E k \in Keys : FetchSuccess(k) \/ \E status \in {401, 500} : FetchError(k, status)

FairSpec == Spec /\ WF_vars(FetchSettles)

\* the items entry of the list shown holds what the server holds
Converged ==
    HasItemsData /\ ItemsQ.data = GetItemsResponse(serverItems[id])

\* C25: once a reorder has succeeded and no reorder is left in flight, the
\* items entry of the list comes to equal the server's items, unless
\* another reorder is issued first or the refetch fails (which, on a 401,
\* takes the application to /login)
C25_ConvergesAfterReorder ==
    (lastEvent.type = "reorderSuccess" /\ muts = <<>>)
        ~> (Converged \/ muts # <<>> \/ itemsError \/ pathname # "/lists/:id")

\* the two items, swapped on the server by a reorder, have been read back
\* in their new order
C25_Witness ==
    /\ Converged
    /\ ~ItemsQ.stale /\ ~ItemsQ.fetching /\ ~ItemsQ.error
    /\ Len(ItemsQ.data) = 2
    /\ ItemsQ.data[1].id = "B" /\ ItemsQ.data[2].id = "A"
    /\ muts = <<>>
    /\ reorderStatus = "success"

(***************************************************************************)
(* What the detail page puts on the screen: the rows of the items list     *)
(* and the ids it gives the drag context.                                  *)
(***************************************************************************)
\* <SortableContext items={sortedItems.map((item) => item.id)}>
SortableContextItems(sorted) == [k \in 1..Len(sorted) |-> sorted[k].id]

\* sortedItems.map((item, index) => <SortableTodoItem id item ... />): the
\* rows from top to bottom, each with the index its handlers are bound to
RenderedItems(sorted) ==
    [k \in 1..Len(sorted) |-> [id |-> sorted[k].id, item |-> sorted[k], index |-> k - 1]]

\* the rows are in ascending order of `order`
Ascending(rows) ==
    \A j, k \in 1..Len(rows) : j < k => rows[j].item.order <= rows[k].item.order

\* the rows are the items of this sequence, each once
SameItems(rows, items) ==
    /\ Len(rows) = Len(items)
    /\ \A k \in 1..Len(items) : \E j \in 1..Len(rows) : rows[j].item = items[k]

\* C26: whenever the detail page shows the items list, its rows are the
\* cached items of the list in ascending order of `order`; the drag context
\* holds the ids of the rows in the same order; and a move or a drag acts
\* on the row at the index, or with the id, it was called for
C26_DisplayedOrder ==
    ItemsListRendered =>
        LET rows == RenderedItems(SortedNow)
        IN /\ HasItemsData
           /\ SameItems(rows, ItemsQ.data)
           /\ Ascending(rows)
           /\ SortableContextItems(SortedNow) = [k \in 1..Len(rows) |-> rows[k].id]
           /\ (lastEvent.type = "handleMoveUp" /\ EffectiveCall) =>
                 LET moved == rows[lastEvent.index + 1]
                     above == rows[lastEvent.index]
                 IN /\ muts[1].itemOrders[moved.id] = above.item.order
                    /\ muts[1].itemOrders[above.id] = moved.item.order
           /\ (lastEvent.type = "handleMoveDown" /\ EffectiveCall) =>
                 LET moved == rows[lastEvent.index + 1]
                     below == rows[lastEvent.index + 2]
                 IN /\ muts[1].itemOrders[moved.id] = below.item.order
                    /\ muts[1].itemOrders[below.id] = moved.item.order
           /\ (lastEvent.type = "handleDragEnd" /\ EffectiveCall) =>
                 \E k \in 1..Len(rows) :
                     /\ rows[k].id = lastEvent.over
                     /\ muts[1].itemOrders[lastEvent.active] = rows[k].index

\* three cached items that are not in order are shown sorted, and the last
\* row has been dragged over the first
C26_Witness ==
    /\ ItemsListRendered
    /\ Len(ItemsQ.data) = 3
    /\ ItemsQ.data[1].order > ItemsQ.data[2].order
    /\ ItemsQ.data[2].order > ItemsQ.data[3].order
    /\ lastEvent.type = "handleDragEnd"
    /\ lastEvent.active = SortedNow[3].id /\ lastEvent.over = SortedNow[1].id
    /\ Len(muts) = 1

(***************************************************************************)
(* SpecMove: handleMoveUp and handleMoveDown on a loaded list, one move at *)
(* a time: the request succeeds and the items are read back before the     *)
(* next move.  The list is any the backend may hold, other sessions        *)
(* included: orders with gaps, out of creation order, or equal.            *)
(***************************************************************************)
InitMove ==
    /\ id = "L1"
    /\ pathname = "/lists/:id"
    /\ token = TRUE
    /\ \E its \in ItemLists :
          /\ serverItems = [l \in ListIds |-> IF l = id THEN its ELSE <<>>]
          /\ cache =
               Put(Put(EmptyCache, todoListKeys_detail(id),
                       Query(TodoList(id, FALSE, <<>>), TRUE, FALSE, FALSE, FALSE)),
                   todoItemKeys_list(id),
                   Query(GetItemsResponse(its), TRUE, FALSE, FALSE, FALSE))
    /\ muts = <<>>
    /\ reorderStatus = "idle"
    /\ createMuts = <<>>
    /\ pending = <<>>
    /\ button = IdleButton
    /\ session = SignedIn("TodoListDetailPage")
    /\ lastEvent = NoEvent

NextMove ==
    \/ CallMoveUp
    \/ CallMoveDown
    \/ \E k \in 1..Len(muts) : ReorderSuccess(k)
    \/ FetchSuccess(todoItemKeys_list(id))

SpecMove == InitMove /\ [][NextMove]_vars

\* the rows the page showed when this mutation was started
ShownAt(m) == sortedItems(m.snap[todoItemKeys_list(m.listId)].data)

\* `after` is `before` with the items at 0-based indices i - 1 and i exchanged
Exchanged(before, after, i) ==
    /\ Len(after) = Len(before)
    /\ after[i] = before[i + 1].id
    /\ after[i + 1] = before[i].id
    /\ \A k \in 1..Len(before) : k \notin {i, i + 1} => after[k] = before[k].id

\* C27: when the request of a move-up of the row at index i > 0 succeeds,
\* the items the refetch then returns have that item at index i - 1, its
\* former upper neighbour at index i and every other item where it was;
\* likewise, a move-down of the row at index i exchanges it with the row
\* below
C27_SingleStepMove ==
    [][ \A k \in 1..Len(muts) :
          ReorderSuccess(k) =>
              LET before == ShownAt(muts[k])
                  after == SortableContextItems(GetItemsResponse(serverItems'[id]))
              IN \A i \in 0..(Len(before) - 1) :
                    /\ (i > 0 /\ Request(muts[k].itemOrders) = MoveUpRequest(id, before, i))
                          => Exchanged(before, after, i)
                    /\ (i < Len(before) - 1
                          /\ Request(muts[k].itemOrders) = MoveDownRequest(id, before, i))
                          => Exchanged(before, after, i + 1) ]_vars

(***************************************************************************)
(* SpecLogout: a signed-in user on the detail page toggles items, logs out *)
(* (also while a toggle is in flight), moves between locations and signs   *)
(* in again.                                                               *)
(***************************************************************************)
InitLogout ==
    /\ id = "L1"
    /\ pathname = "/lists/:id"
    /\ token = TRUE
    /\ serverItems = [l \in ListIds |-> <<TodoItem("A", 0)>>]
    /\ cache = [k \in KeysAll |->
                  Query(LoadedData(k, serverItems[id]), TRUE, FALSE, FALSE, FALSE)]
    /\ muts = <<>>
    /\ reorderStatus = "idle"
    /\ createMuts = <<>>
    /\ pending = <<>>
    /\ button = IdleButton
    /\ session = SignedIn("TodoListDetailPage")
    /\ lastEvent = NoEvent

NextLogout ==
    \/ Logout
    \/ \E i \in ItemIds : ToggleCompleteSubmit(i)
    \/ \E k \in 1..Len(pending) : MutationSuccess(k)
    \/ \E path \in Paths : GoTo(path)
    \/ LoginSubmit
    \/ \E k \in 1..Len(pending) : AuthSuccess(k)
    \/ NextQueriesAll

SpecLogout == InitLogout /\ [][NextLogout]_vars

\* the locations behind ProtectedRoute
ProtectedPaths == {"/lists", "/lists/:id"}

\* nobody is signed in: no token and no user, in memory or stored
SignedOut == ~token /\ ~session.user /\ session.storedUser = "none"

SessionConsistent ==
    /\ isAuthenticated(session, token) => token /\ session.user
    /\ session.user => token
    /\ session.element \in Pages => token /\ session.user

\* the first check on a stored user without a token: the stored user is
\* removed and nobody is authenticated
StartupDiscards ==
    (LoadUserFromStorage /\ session.storedUser # "none" /\ ~token) =>
        /\ session'.storedUser = "none"
        /\ ~session'.user
        /\ ~isAuthenticated(session', token')

\* the user is set only in a step that leaves the token stored, and the
\* answer of login or register is such a step
TokenBeforeUser ==
    /\ (~session.user /\ session'.user) => token'
    /\ (\E k \in 1..Len(pending) : AuthSuccess(k)) =>
          token' /\ isAuthenticated(session', token')

InitToggle ==
    /\ id = "L1"
    /\ pathname = "/lists/:id"
    /\ token = TRUE
    /\ serverItems = [l \in ListIds |-> <<TodoItem("A", 0)>>]
    /\ cache = [k \in KeysAll |->
                  Query(LoadedData(k, serverItems[id]), TRUE, FALSE, FALSE, FALSE)]
    /\ muts = <<>>
    /\ reorderStatus = "idle"
    /\ createMuts = <<>>
    /\ pending = <<>>
    /\ button = IdleButton
    /\ session = SignedIn("TodoListDetailPage")
    /\ lastEvent = NoEvent

NextToggle ==
    \/ \E i \in ItemIds : ToggleCompleteSubmit(i)
    \/ \E k \in 1..Len(pending) : MutationSuccess(k)
    \/ \E k \in 1..Len(pending) : MutationFail(k, 500)
    \/ \E path \in ProtectedPaths : GoTo(path)
    \/ NextQueriesAll

SpecToggle == InitToggle /\ [][NextToggle]_vars

\* the toggle requests of an item that are in flight
TogglesInFlight(i) ==
    {k \in 1..Len(pending) : pending[k].kind = "toggleComplete" /\ pending[k].itemId = i}

\* the request a toggle has just added carries the negation of the cached
\* isCompleted of its item
CarriesNegation ==
    \A i \in ItemIds :
        ToggleCompleteSubmit(i) =>
            /\ Has(cache, todoItemKeys_list(id))
            /\ pending'[Len(pending')].isCompleted =
                  ~ItemOf(cache[todoItemKeys_list(id)].data, i).isCompleted

\* C30: at most one completion-toggle request of an item is in flight at a
\* time, and every toggle request carries the negation of the isCompleted
\* value cached for its item
C30_ToggleSerialized ==
    /\ [](\A i \in ItemIds : Cardinality(TogglesInFlight(i)) <= 1)
    /\ [][CarriesNegation]_vars

====
